---- MODULE Spec2Model ----
(***************************************************************************)
(* URL shortener: the creation handler (POST /shorturls), the redirect     *)
(* handler (GET /:shortcode), the stats handler (GET /shorturls/:code),    *)
(* the validators, the shortcode allocator, the Url model and the logging  *)
(* client, run as concurrent requests against one document store with a    *)
(* unique index on shortcode and a TTL index on expiryAt.                  *)
(*                                                                         *)
(*   Spec          two creations and one redirect, clock and TTL sweep     *)
(*   SpecCodes     the creations alone, the empty shortcode included       *)
(*   SpecAlloc     one creation against a store holding generated codes    *)
(*   SpecClicks    three redirects against one stored record               *)
(*   SpecStats     a stats request and a redirect against a clicked record *)
(*   SpecLog       the logging client and the handlers awaiting Log        *)
(*   SpecValidate  one call of validateUrl                                 *)
(*   SpecValidity  one call of validateValidity                            *)
(*                                                                         *)
(* Time is a discrete clock in minutes.  A code is a sequence of           *)
(* one-character strings.  Every await of the handlers is a step boundary: *)
(* the code between two awaits runs as one action.                         *)
(***************************************************************************)
EXTENDS Integers, Sequences, FiniteSets, TLC

(***************************************************************************)
(* Bounds of the model.                                                    *)
(***************************************************************************)
MaxTime == 2
MaxFaults == 1

\* The requests.  Spec runs the creations and one redirect; SpecClicks runs
\* all the redirects against a store that holds one record.
CreateReqs == {"p1", "p2"}
RedirectReqs == {"r1", "r2", "r3"}
MainRedirectReqs == {"r1"}

(***************************************************************************)
(* Program constants (config).                                             *)
(***************************************************************************)
defaultLength == 6
minCustomLength == 4
maxCustomLength == 20
maxRetries == 5
defaultValidityMinutes == 30
MaxValidityMinutes == 525600

Digits == {"0", "1", "2", "3", "4", "5", "6", "7", "8", "9"}
LowerChars ==
    {"a", "b", "c", "d", "e", "f", "g", "h", "i", "j", "k", "l", "m",
     "n", "o", "p", "q", "r", "s", "t", "u", "v", "w", "x", "y", "z"}
UpperChars ==
    {"A", "B", "C", "D", "E", "F", "G", "H", "I", "J", "K", "L", "M",
     "N", "O", "P", "Q", "R", "S", "T", "U", "V", "W", "X", "Y", "Z"}
base62Chars == Digits \cup LowerChars \cup UpperChars

\* The characters String.prototype.trim removes, as far as the inputs use them.
Whitespace == {" "}

(***************************************************************************)
(* Strings as sequences of characters.                                     *)
(***************************************************************************)
RECURSIVE TrimLeft(_)
TrimLeft(s) ==
    IF s # << >> /\ Head(s) \in Whitespace THEN TrimLeft(Tail(s)) ELSE s

RECURSIVE TrimRight(_)
TrimRight(s) ==
    IF s # << >> /\ s[Len(s)] \in Whitespace
    THEN TrimRight(SubSeq(s, 1, Len(s) - 1))
    ELSE s

Trim(s) == TrimRight(TrimLeft(s))

\* /^[a-zA-Z0-9]+$/
IsAlnum(s) == s # << >> /\ \A i \in 1..Len(s) : s[i] \in base62Chars

(***************************************************************************)
(* ValidationService.validateUrl.  A URL is [ws, scheme, host, path]: ws   *)
(* says that whitespace surrounds it, host is the list of its dot-         *)
(* separated labels.  Trimming clears ws.                                  *)
(***************************************************************************)
NoUrl == [ws |-> FALSE, scheme |-> "", host |-> << >>, path |-> ""]

TrimUrl(u) == [u EXCEPT !.ws = FALSE]

IsPrivateHost(h) ==
    \/ h = <<"localhost">>
    \/ h = <<"127", "0", "0", "1">>
    \/ h = <<"0", "0", "0", "0">>
    \/ (Len(h) > 2 /\ h[1] = "192" /\ h[2] = "168")
    \/ (Len(h) > 1 /\ h[1] = "10")
    \/ (Len(h) > 2 /\ h[1] = "172"
          /\ h[2] \in {"16", "17", "18", "19", "20", "21", "22", "23",
                       "24", "25", "26", "27", "28", "29", "30", "31"})

validateUrl(u) ==
    LET t == TrimUrl(u) IN
    IF u = NoUrl THEN [isValid |-> FALSE, url |-> NoUrl]
    ELSE IF t.scheme \notin {"http", "https"} THEN [isValid |-> FALSE, url |-> NoUrl]
    ELSE IF t.host = << >> THEN [isValid |-> FALSE, url |-> NoUrl]
    ELSE IF IsPrivateHost(t.host) THEN [isValid |-> FALSE, url |-> NoUrl]
    ELSE [isValid |-> TRUE, url |-> t]

(***************************************************************************)
(* ValidationService.validateValidity.  The input is absent, not a number, *)
(* or a number given in tenths of a minute; Math.round(x) is               *)
(* floor(x + 0.5).                                                         *)
(***************************************************************************)
AbsentValidity == [kind |-> "absent", tenths |-> 0]
NaNValidity == [kind |-> "nan", tenths |-> 0]
NumValidity(t) == [kind |-> "num", tenths |-> t]

MathRoundTenths(t) == (t + 5) \div 10

validateValidity(v, defaultValue) ==
    IF v.kind = "absent" THEN [isValid |-> TRUE, validity |-> defaultValue]
    ELSE IF v.kind = "nan" THEN [isValid |-> FALSE, validity |-> 0]
    ELSE IF v.tenths <= 0 THEN [isValid |-> FALSE, validity |-> 0]
    ELSE IF v.tenths > MaxValidityMinutes * 10 THEN [isValid |-> FALSE, validity |-> 0]
    ELSE [isValid |-> TRUE, validity |-> MathRoundTenths(v.tenths)]

(***************************************************************************)
(* ShortcodeService.validateCustomShortcode and generateRandomBase62.      *)
(***************************************************************************)
validateCustomShortcode(s) ==
    LET t == Trim(s) IN
    IF s = << >> THEN [isValid |-> FALSE, shortcode |-> << >>]
    ELSE IF Len(t) < minCustomLength THEN [isValid |-> FALSE, shortcode |-> << >>]
    ELSE IF Len(t) > maxCustomLength THEN [isValid |-> FALSE, shortcode |-> << >>]
    ELSE IF ~IsAlnum(t) THEN [isValid |-> FALSE, shortcode |-> << >>]
    ELSE [isValid |-> TRUE, shortcode |-> t]

\* The characters the model lets Math.random pick.
DrawChars == {"a"}

\* Mutant of generateRandomBase62: the alphabet is the URL-safe base64 one and
\* the draw picks one of its two extra symbols.
generateRandomBase64(length) == [1..length -> {"_"}]

generateRandomBase62(length) == [1..length -> DrawChars]

(***************************************************************************)
(* The Url model: schema validation, isExpired, and the store operations   *)
(* the handlers call.  The store is the set of documents of collection     *)
(* urls; a document's id is the request that inserted it.                  *)
(***************************************************************************)
NoDoc ==
    [id |-> "none", shortcode |-> << >>, originalUrl |-> NoUrl, createdAt |-> 0,
     expiryAt |-> 0, clickCount |-> 0, clicks |-> << >>]

\* new Url({shortcode, originalUrl, expiryAt, clickCount: 0, clicks: []}),
\* createdAt defaulting to Date.now.
NewUrlDoc(id, shortcode, originalUrl, expiryAt, t) ==
    [id |-> id, shortcode |-> shortcode, originalUrl |-> originalUrl, createdAt |-> t,
     expiryAt |-> expiryAt, clickCount |-> 0, clicks |-> << >>]

\* The schema's validators on shortcode and originalUrl.
SchemaValid(d) ==
    /\ Len(d.shortcode) >= minCustomLength
    /\ Len(d.shortcode) <= maxCustomLength
    /\ IsAlnum(d.shortcode)
    /\ d.originalUrl.scheme \in {"http", "https"}
    /\ d.originalUrl.host # << >>
    /\ d.clickCount >= 0

\* Mutant of isExpired: the comparison turned around.
isExpiredReversed(d, t) == t < d.expiryAt

\* Mutant of isExpired: no record is ever found expired.
isExpiredNever(d, t) == FALSE

\* urlSchema.methods.isExpired: new Date() > this.expiryAt
isExpired(d, t) == t > d.expiryAt

\* Mutant of PreSaveRejects: no pre-save hook.
PreSaveNever(d, t) == FALSE

\* urlSchema.pre('save') on a new document: the error it raises, if any.
PreSaveRejects(d, t) == d.expiryAt <= t

\* Url.findOne({shortcode})
findOne(s, code) ==
    IF \E d \in s : d.shortcode = code
    THEN CHOOSE d \in s : d.shortcode = code
    ELSE NoDoc

\* Mutants of DuplicateKey: no unique index at all; the unique index declared
\* on originalUrl instead of shortcode.
DuplicateKeyNoIndex(s, d) == FALSE

DuplicateKeyOnUrl(s, d) == \E e \in s : e.originalUrl = d.originalUrl

\* The unique index on shortcode: whether inserting d raises E11000.
DuplicateKey(s, d) == \E e \in s : e.shortcode = d.shortcode

\* Mutant of InsertDoc: the save is acknowledged and nothing is written.
InsertDocDropped(s, d) == s

InsertDoc(s, d) == s \cup {d}

\* Mutant of ApplyAddClick: the save also extends the record's expiry.
ApplyAddClickExtends(s, id, click, count) ==
    {IF d.id = id
     THEN [d EXCEPT !.clicks = Append(@, click), !.clickCount = count,
                    !.expiryAt = @ + 1]
     ELSE d : d \in s}

\* The update a save() of a loaded document sends after addClick: the pushed
\* click is appended to the stored array ($push), the modified clickCount is
\* set to the value the handler computed ($set).
ApplyAddClick(s, id, click, count) ==
    {IF d.id = id
     THEN [d EXCEPT !.clicks = Append(@, click), !.clickCount = count]
     ELSE d : d \in s}

\* Mutant of TtlExpired: the sweep deletes documents whatever their expiryAt.
TtlSweepsLive(d, t) == TRUE

\* The TTL index on expiryAt (expireAfterSeconds: 0): the documents the
\* store's background sweep may delete at time t.
TtlExpired(d, t) == d.expiryAt <= t

(***************************************************************************)
(* State.                                                                  *)
(*   now     the clock (minutes)                                           *)
(*   store   the documents of collection urls                              *)
(*   faults  how many store operations have failed so far                  *)
(*   creq    the POST /shorturls requests                                  *)
(*   rreq    the GET /:shortcode requests                                  *)
(*   logger  the LoggingClient singleton and its clock (seconds)           *)
(*   logs    the Log calls of the handlers that reached their audit log    *)
(*   sreq    the GET /shorturls/:shortcode requests                        *)
(*   vcall   a call of ValidationService.validateUrl or validateValidity   *)
(* A request's fault says that one of its store operations failed, a       *)
(* creation's heldExpired that one of its availability checks found the    *)
(* code held by a record past its expiryAt.                                *)
(***************************************************************************)
VARIABLES now, store, faults, creq, rreq, logger, logs, sreq, vcall

vars == <<now, store, faults, creq, rreq, logger, logs, sreq, vcall>>

\* Mutant of shortcodeExists: only live records count, as in
\* findValidByShortcode.
shortcodeExistsLive(s, code) == \E d \in s : d.shortcode = code /\ d.expiryAt > now

\* Url.shortcodeExists: exists({shortcode}), whatever the expiry.
shortcodeExists(s, code) == \E d \in s : d.shortcode = code

IdleCreate ==
    [pc |-> "idle", url |-> NoUrl, validity |-> 0, supplied |-> FALSE, custom |-> FALSE,
     shortcode |-> << >>, attempts |-> 0, currentLength |-> 0,
     createdAt |-> 0, expiryAt |-> 0,
     status |-> 0, fault |-> FALSE, dup |-> FALSE, heldExpired |-> FALSE,
     log |-> "none"]

NoClick == [ts |-> -1, ip |-> << >>, country |-> "null"]

IdleRedirect ==
    [pc |-> "idle", shortcode |-> << >>, doc |-> NoDoc, click |-> NoClick,
     geo |-> "none", written |-> FALSE, status |-> 0, target |-> NoUrl,
     fault |-> FALSE, log |-> "none"]

\* The GET /shorturls/:shortcode requests.
StatsReqs == {"s1"}

\* A stats request before it arrives.  query is req.query as sent, page and
\* limit what validatePagination returned, totalClicks and clicks the body,
\* ts the time the request was handled.
IdleStats ==
    [pc |-> "idle", shortcode |-> << >>,
     query |-> [page |-> AbsentValidity, limit |-> AbsentValidity],
     page |-> 0, limit |-> 0, status |-> 0, totalClicks |-> 0, clicks |-> << >>,
     fault |-> FALSE, ts |-> 0]

\* No call of validateUrl.
IdleCall == [pc |-> "idle", input |-> NoUrl, result |-> [isValid |-> FALSE, url |-> NoUrl]]

\* The handlers that have reached their awaited loggingClient.Log call.
LogCallers == {"h1", "h2"}

\* new LoggingClient(): no token, no authentication under way; disabled when
\* validateConfig finds a required setting missing.  clock is the time in
\* seconds, auths counts the authentication requests sent, ages the times
\* the service sat idle until its token expired.
NewLoggingClient(disabled) ==
    [disabled |-> disabled, token |-> FALSE, tokenExpiry |-> 0,
     isAuthenticating |-> FALSE, authPromise |-> "null", clock |-> 0, auths |-> 0,
     ages |-> 0]

\* A handler before its Log call.  pc is where the call's retry chain stands,
\* retries the parameter of its current invocation, attempts the invocations
\* so far, due the time its retry timer is set for, returned whether the
\* awaited first invocation has completed, status the response sent.
IdleLog ==
    [pc |-> "idle", kind |-> "none", retries |-> 0, attempts |-> 0, due |-> 0,
     returned |-> FALSE, status |-> 0]

Init ==
    /\ now = 0
    /\ store = {}
    /\ faults = 0
    /\ creq = [p \in CreateReqs |-> IdleCreate]
    /\ rreq = [r \in RedirectReqs |-> IdleRedirect]
    /\ logger = NewLoggingClient(FALSE)
    /\ logs = [h \in LogCallers |-> IdleLog]
    /\ sreq = [r \in StatsReqs |-> IdleStats]
    /\ vcall = IdleCall

(***************************************************************************)
(* The inputs the requests are drawn from.                                 *)
(***************************************************************************)
Url(ws, scheme, host, path) == [ws |-> ws, scheme |-> scheme, host |-> host, path |-> path]

UrlInputs(p) ==
    {Url(TRUE, "https", <<"example", "com">>, p),
     Url(FALSE, "ftp", <<"example", "com">>, p),
     Url(FALSE, "http", <<"localhost">>, p),
     Url(FALSE, "http", <<"192", "168", "1", "1">>, p),
     NoUrl}

ValidityInputs ==
    {AbsentValidity, NaNValidity, NumValidity(0), NumValidity(4), NumValidity(5),
     NumValidity(10), NumValidity(14), NumValidity(MaxValidityMinutes * 10 + 1)}

CodeAbcd == <<"a", "b", "c", "d">>

\* req.body.shortcode: absent, or a string.
NoShortcode == [given |-> FALSE, text |-> << >>]

Shortcode(text) == [given |-> TRUE, text |-> text]

ShortcodeInputs ==
    {NoShortcode, Shortcode(CodeAbcd),
     Shortcode(<<" ">> \o CodeAbcd \o <<" ">>), Shortcode(<<"a", "b">>),
     Shortcode(<<"a", "b", "-", "d">>)}

\* The same with the empty string, which Spec leaves out: the handler treats
\* it as it treats an absent shortcode.
AllShortcodeInputs == ShortcodeInputs \cup {Shortcode(<< >>)}

RedirectCodes == {CodeAbcd} \cup generateRandomBase62(defaultLength)

\* The outcomes of a store operation: it answers (TRUE) or fails (FALSE).
StoreOutcomes == IF faults < MaxFaults THEN {TRUE, FALSE} ELSE {TRUE}

\* The first delivery attempt of loggingClient.Log (token, then POST): sent,
\* or failed (authentication failed, the POST failed or timed out).
LogOutcomes == {"sent", "failed"}

\* The X-Forwarded-For header of redirect request r, split at its commas:
\* absent, ",", or " r" (each entry a string of characters; a client is
\* named after its request, behind a proxy or not).
ForwardedForInputs(r) == {<< >>, << << >>, << >> >>, << <<" ", r>> >>}

\* geoip.lookup: an entry, no entry (null), or an exception.
GeoOutcomes == {"hit", "miss", "throw"}

(***************************************************************************)
(* POST /shorturls.                                                        *)
(***************************************************************************)
\* Mutant of CreateCatchStatus: no test of error.code.
CreateCatchAlways500(err) == 500

\* The catch block of the creation handler: the status for a thrown error.
CreateCatchStatus(err) == IF err = "E11000" THEN 409 ELSE 500

\* The status sent after the audit-log call: Log absorbs its own failures and
\* the handler catches whatever the call throws.
CreateLogStatus(outcome) == 201

CreateRespond(q, status) == [q EXCEPT !.pc = "done", !.status = status]

\* Lines 41-52 up to the insert: the expiry, the document, mongoose's
\* validation and the pre-save hook, all at the current clock reading.
CreateBuild(q) ==
    LET expiryAt == now + q.validity
        d == NewUrlDoc("new", q.shortcode, q.url, expiryAt, now)
        b == [q EXCEPT !.expiryAt = expiryAt, !.createdAt = now]
    IN  IF ~SchemaValid(d) \/ PreSaveRejects(d, now)
        THEN CreateRespond(b, CreateCatchStatus("Error"))
        ELSE [b EXCEPT !.pc = "insert"]

\* Mutant of GenerateNext: the loop test lets one more candidate through.
GenerateNextFourTiers(q) ==
    IF q.attempts <= maxRetries * 3
    THEN {[q EXCEPT !.pc = "check", !.shortcode = c] :
             c \in generateRandomBase62(q.currentLength)}
    ELSE {CreateRespond(q, 500)}

\* generateUniqueShortcode from its loop test to the next availability check:
\* the states the request may be in after the draw of a candidate, or after
\* the throw that processShortcode turns into statusCode 500.
GenerateNext(q) ==
    IF q.attempts < maxRetries * 3
    THEN {[q EXCEPT !.pc = "check", !.shortcode = c] :
             c \in generateRandomBase62(q.currentLength)}
    ELSE {CreateRespond(q, 500)}

\* The request arrives: validateUrl, validateValidity, and processShortcode
\* up to its first availability check.
CreateStartWith(p, shortcodes) ==
    /\ creq[p].pc = "idle"
    /\ \E url \in UrlInputs(p), validity \in ValidityInputs, shortcode \in shortcodes :
         LET urlValidation == validateUrl(url)
             validityValidation == validateValidity(validity, defaultValidityMinutes)
             validation == validateCustomShortcode(shortcode.text)
             q == creq[p]
             v == [q EXCEPT !.url = urlValidation.url,
                            !.validity = validityValidation.validity,
                            !.supplied = shortcode.given]
         IN  \E next \in
                 IF ~urlValidation.isValid THEN {CreateRespond(q, 400)}
                 ELSE IF ~validityValidation.isValid THEN {CreateRespond(q, 400)}
                 ELSE IF shortcode.text # << >>
                 THEN IF ~validation.isValid
                      THEN {CreateRespond([q EXCEPT !.supplied = TRUE], 400)}
                      ELSE {[v EXCEPT !.pc = "check", !.custom = TRUE,
                                      !.shortcode = validation.shortcode]}
                 ELSE GenerateNext([v EXCEPT !.attempts = 0,
                                             !.currentLength = defaultLength]) :
               creq' = [creq EXCEPT ![p] = next]
    /\ UNCHANGED <<sreq, vcall, logger, logs, now, store, faults, rreq>>

CreateStart(p) == CreateStartWith(p, ShortcodeInputs)

CreateStartAny(p) == CreateStartWith(p, AllShortcodeInputs)

\* Mutant of CheckFailed: the allocator's loop swallows the error and goes on
\* to its next attempt.
CheckFailedTriesAgain(q) == [q EXCEPT !.fault = TRUE, !.attempts = @ + 1]

\* The store failed during an availability check: isShortcodeAvailable
\* throws, generateUniqueShortcode rethrows, the catch of processShortcode
\* returns statusCode 500 and the handler answers with it.
CheckFailed(q) == CreateRespond([q EXCEPT !.fault = TRUE], 500)

\* isShortcodeAvailable answers, and the code up to the next await runs.
CreateCheck(p) ==
    /\ creq[p].pc = "check"
    /\ \E ok \in StoreOutcomes :
         LET isAvailable == ~shortcodeExists(store, creq[p].shortcode)
             q == [creq[p] EXCEPT !.heldExpired =
                       @ \/ (ok /\ \E d \in store : /\ d.shortcode = creq[p].shortcode
                                                    /\ isExpired(d, now))]
             attempts == q.attempts + 1
         IN  /\ faults' = IF ok THEN faults ELSE faults + 1
             /\ \E next \in
                    IF ~ok THEN {CheckFailed(q)}
                    ELSE IF isAvailable THEN {CreateBuild(q)}
                    ELSE IF q.custom THEN {CreateRespond(q, 409)}
                    ELSE GenerateNext([q EXCEPT !.attempts = attempts,
                                                !.currentLength =
                                                    IF attempts % maxRetries = 0
                                                    THEN @ + 1 ELSE @]) :
                  creq' = [creq EXCEPT ![p] = next]
    /\ UNCHANGED <<sreq, vcall, logger, logs, now, store, rreq>>

\* urlDoc.save() reaches the store.
CreateInsert(p) ==
    /\ creq[p].pc = "insert"
    /\ \E ok \in StoreOutcomes :
         LET q == creq[p]
             d == NewUrlDoc(p, q.shortcode, q.url, q.expiryAt, q.createdAt)
         IN  /\ faults' = IF ok THEN faults ELSE faults + 1
             /\ IF ~ok
                THEN /\ creq' = [creq EXCEPT ![p] =
                            CreateRespond([q EXCEPT !.fault = TRUE], CreateCatchStatus("Error"))]
                     /\ store' = store
                ELSE IF DuplicateKey(store, d)
                THEN /\ creq' = [creq EXCEPT ![p] =
                            CreateRespond([q EXCEPT !.dup = TRUE], CreateCatchStatus("E11000"))]
                     /\ store' = store
                ELSE /\ creq' = [creq EXCEPT ![p] = [q EXCEPT !.pc = "log"]]
                     /\ store' = InsertDoc(store, d)
    /\ UNCHANGED <<sreq, vcall, logger, logs, now, rreq>>

\* The awaited Log call returns and the response is sent.
CreateLog(p) ==
    /\ creq[p].pc = "log"
    /\ \E outcome \in LogOutcomes :
         creq' = [creq EXCEPT ![p] =
                    CreateRespond([@ EXCEPT !.log = outcome], CreateLogStatus(outcome))]
    /\ UNCHANGED <<sreq, vcall, logger, logs, now, store, faults, rreq>>

(***************************************************************************)
(* GET /:shortcode.                                                        *)
(***************************************************************************)
\* country = geo ? geo.country : null, null too when the lookup throws.
GeoCountry(g) == IF g = "hit" THEN "IN" ELSE "null"

\* Mutant of AfterAddClick: the save is not awaited inside the try block, so a
\* failed write goes unnoticed (fail open).
AfterAddClickFailOpen(q, saved) == [q EXCEPT !.pc = "log", !.written = saved]

\* What the handler does with the result of await urlDoc.addClick(...): it
\* goes on to the audit log, or its catch block answers 500.
AfterAddClick(q, saved) ==
    IF saved
    THEN [q EXCEPT !.pc = "log", !.written = TRUE]
    ELSE [q EXCEPT !.pc = "done", !.status = 500]

\* Mutant of RedirectLogStatus: a failed Log call reaches the outer catch.
RedirectLogPropagates(outcome) == IF outcome = "failed" THEN 500 ELSE 302

\* The status sent after the audit-log call: Log absorbs its own failures and
\* the handler catches whatever the call throws.
RedirectLogStatus(outcome) == 302

\* ValidationService.extractClientIP: the first entry of X-Forwarded-For,
\* trimmed, when the header is there; the connection's remote address (here
\* the request's own name) otherwise.
extractClientIP(forwardedFor, remoteAddress) ==
    IF forwardedFor # << >> THEN Trim(forwardedFor[1]) ELSE remoteAddress

\* clickSchema: ip is required, and the empty string does not satisfy it.
ClickValid(c) == c.ip # << >>

\* findOne answers, and the code up to the store update of addClick runs: the
\* 404, the isExpired check, the client IP, the geo lookup, the click, the
\* local push and the validation that save() runs before it sends the update.
RedirectLookup(r) ==
    /\ rreq[r].pc = "idle"
    /\ \E code \in RedirectCodes, ok \in StoreOutcomes, g \in GeoOutcomes,
          forwardedFor \in ForwardedForInputs(r) :
         LET q == [rreq[r] EXCEPT !.shortcode = code]
             urlDoc == findOne(store, code)
             clientIP == extractClientIP(forwardedFor, <<r>>)
             clickData == [ts |-> now, ip |-> clientIP, country |-> GeoCountry(g)]
             c == [q EXCEPT !.geo = g, !.click = clickData,
                            !.doc = [urlDoc EXCEPT
                                       !.clicks = Append(@, clickData),
                                       !.clickCount = Len(urlDoc.clicks) + 1]]
         IN  /\ faults' = IF ok THEN faults ELSE faults + 1
             /\ rreq' = [rreq EXCEPT ![r] =
                  IF ~ok
                  THEN [q EXCEPT !.pc = "done", !.status = 500, !.fault = TRUE]
                  ELSE IF urlDoc = NoDoc
                  THEN [q EXCEPT !.pc = "done", !.status = 404]
                  ELSE IF isExpired(urlDoc, now)
                  THEN [q EXCEPT !.pc = "done", !.status = 410, !.doc = urlDoc]
                  ELSE IF ~ClickValid(clickData)
                  THEN AfterAddClick(c, FALSE)
                  ELSE [c EXCEPT !.pc = "addClick"]]
    /\ UNCHANGED <<sreq, vcall, logger, logs, now, store, creq>>

\* The save of addClick reaches the store.  A document the sweep has removed
\* in between makes the save fail (no document matches the update).
RedirectAddClick(r) ==
    /\ rreq[r].pc = "addClick"
    /\ \E ok \in StoreOutcomes :
         LET q == rreq[r]
             present == \E d \in store : d.id = q.doc.id
         IN  /\ faults' = IF ok THEN faults ELSE faults + 1
             /\ rreq' = [rreq EXCEPT ![r] =
                  AfterAddClick([q EXCEPT !.fault = ~ok], ok /\ present)]
             /\ store' = IF ok /\ present
                         THEN ApplyAddClick(store, q.doc.id, q.click, q.doc.clickCount)
                         ELSE store
    /\ UNCHANGED <<sreq, vcall, logger, logs, now, creq>>

\* The awaited Log call returns and the redirect is sent.
RedirectLog(r) ==
    /\ rreq[r].pc = "log"
    /\ \E outcome \in LogOutcomes :
         LET q == rreq[r]
             status == RedirectLogStatus(outcome)
         IN  rreq' = [rreq EXCEPT ![r] =
                        [q EXCEPT !.pc = "done", !.log = outcome, !.status = status,
                                  !.target = IF status = 302
                                             THEN q.doc.originalUrl ELSE NoUrl]]
    /\ UNCHANGED <<sreq, vcall, logger, logs, now, store, faults, creq>>

(***************************************************************************)
(* The environment: the clock and the store's TTL sweep.                   *)
(***************************************************************************)
Tick ==
    /\ now < MaxTime
    /\ now' = now + 1
    /\ UNCHANGED <<sreq, vcall, logger, logs, store, faults, creq, rreq>>

Sweep ==
    /\ \E d \in store :
         /\ TtlExpired(d, now)
         /\ store' = store \ {d}
    /\ UNCHANGED <<sreq, vcall, logger, logs, now, faults, creq, rreq>>

Next ==
    \/ \E p \in CreateReqs : CreateStart(p)
    \/ \E p \in CreateReqs : CreateCheck(p)
    \/ \E p \in CreateReqs : CreateInsert(p)
    \/ \E p \in CreateReqs : CreateLog(p)
    \/ \E r \in MainRedirectReqs : RedirectLookup(r)
    \/ \E r \in MainRedirectReqs : RedirectAddClick(r)
    \/ \E r \in MainRedirectReqs : RedirectLog(r)
    \/ Tick
    \/ Sweep

Spec == Init /\ [][Next]_vars

(***************************************************************************)
(* SpecClicks: the redirects of RedirectReqs, run concurrently against the *)
(* store as request p1 leaves it after POST {url, validity: 1, shortcode:  *)
(* "abcd"} was answered 201 at time 0.                                     *)
(***************************************************************************)
SeedUrl == Url(FALSE, "https", <<"example", "com">>, "p1")

SeedDoc == NewUrlDoc("p1", CodeAbcd, SeedUrl, 1, 0)

SeedCreate ==
    [IdleCreate EXCEPT !.pc = "done", !.url = SeedUrl, !.validity = 1,
                       !.supplied = TRUE, !.custom = TRUE, !.shortcode = CodeAbcd, !.createdAt = 0,
                       !.expiryAt = 1, !.status = 201, !.log = "sent"]

InitClicks ==
    /\ now = 0
    /\ store = {SeedDoc}
    /\ faults = 0
    /\ creq = [p \in CreateReqs |-> IF p = "p1" THEN SeedCreate ELSE IdleCreate]
    /\ rreq = [r \in RedirectReqs |-> IdleRedirect]
    /\ logger = NewLoggingClient(FALSE)
    /\ logs = [h \in LogCallers |-> IdleLog]
    /\ sreq = [r \in StatsReqs |-> IdleStats]
    /\ vcall = IdleCall

NextClicks ==
    \/ \E r \in RedirectReqs : RedirectLookup(r)
    \/ \E r \in RedirectReqs : RedirectAddClick(r)
    \/ \E r \in RedirectReqs : RedirectLog(r)
    \/ Tick
    \/ Sweep

SpecClicks == InitClicks /\ [][NextClicks]_vars

\* SpecCodes: the creation requests alone, their shortcode drawn from
\* AllShortcodeInputs.
NextCodes ==
    \/ \E p \in CreateReqs : CreateStartAny(p)
    \/ \E p \in CreateReqs : CreateCheck(p)
    \/ \E p \in CreateReqs : CreateInsert(p)
    \/ \E p \in CreateReqs : CreateLog(p)
    \/ Tick
    \/ Sweep

SpecCodes == Init /\ [][NextCodes]_vars

\* The seeded state is one Spec reaches.
SeedReached ==
    /\ now = 0
    /\ store = {SeedDoc}
    /\ creq["p1"] = SeedCreate

(***************************************************************************)
(* GET /shorturls/:shortcode, and SpecStats: a stats request next to two   *)
(* redirects against the store that holds the record of p1.                *)
(***************************************************************************)
\* The defaults and the cap of validatePagination.
DefaultPage == 1
DefaultLimit == 50
MaxLimit == 1000

\* Math.floor of a number given in tenths.
MathFloorTenths(t) == t \div 10

\* ValidationService.validatePagination.  A query parameter is absent, not a
\* number, or a number given in tenths.
validatePagination(page, limit) ==
    LET invalid == [isValid |-> FALSE, page |-> 0, limit |-> 0] IN
    IF page.kind # "absent" /\ (page.kind = "nan" \/ page.tenths < 10) THEN invalid
    ELSE IF limit.kind # "absent" /\ (limit.kind = "nan" \/ limit.tenths < 10) THEN invalid
    ELSE IF limit.kind # "absent" /\ limit.tenths > MaxLimit * 10 THEN invalid
    ELSE [isValid |-> TRUE,
          page |-> IF page.kind = "absent" THEN DefaultPage
                   ELSE MathFloorTenths(page.tenths),
          limit |-> IF limit.kind = "absent" THEN DefaultLimit
                    ELSE MathFloorTenths(limit.tenths)]

\* Mutant of slice: the page size taken as the end index.
sliceFromStart(a, start, end) ==
    SubSeq(a, start + 1, IF end - start < Len(a) THEN end - start ELSE Len(a))

\* Array.prototype.slice(start, end) for 0 <= start <= end.
slice(a, start, end) ==
    SubSeq(a, start + 1, IF end < Len(a) THEN end ELSE Len(a))

\* req.query.page and req.query.limit: absent, "abc", 0.5, 1.5, 2, 3 and
\* absent, "abc", 0.5, 1.5, 2, 1000.5.
PageInputs ==
    {AbsentValidity, NaNValidity, NumValidity(5), NumValidity(15), NumValidity(20),
     NumValidity(30)}

LimitInputs ==
    {AbsentValidity, NaNValidity, NumValidity(5), NumValidity(15), NumValidity(20),
     NumValidity(MaxLimit * 10 + 5)}

\* The whole handler: validatePagination, findOne, the page of clicks.
Stats(r) ==
    /\ sreq[r].pc = "idle"
    /\ \E code \in RedirectCodes, page \in PageInputs, limit \in LimitInputs,
          ok \in StoreOutcomes :
         LET q == [sreq[r] EXCEPT !.pc = "done", !.shortcode = code, !.ts = now,
                                  !.query = [page |-> page, limit |-> limit]]
             paginationValidation == validatePagination(page, limit)
             urlDoc == findOne(store, code)
             startIndex == (paginationValidation.page - 1) * paginationValidation.limit
             endIndex == startIndex + paginationValidation.limit
         IN  IF ~paginationValidation.isValid
             THEN /\ sreq' = [sreq EXCEPT ![r] = [q EXCEPT !.status = 400]]
                  /\ faults' = faults
             ELSE /\ faults' = IF ok THEN faults ELSE faults + 1
                  /\ sreq' = [sreq EXCEPT ![r] =
                       LET v == [q EXCEPT !.page = paginationValidation.page,
                                          !.limit = paginationValidation.limit]
                       IN  IF ~ok THEN [v EXCEPT !.status = 500, !.fault = TRUE]
                           ELSE IF urlDoc = NoDoc THEN [v EXCEPT !.status = 404]
                           ELSE [v EXCEPT !.status = 200,
                                          !.totalClicks = urlDoc.clickCount,
                                          !.clicks = slice(urlDoc.clicks, startIndex,
                                                           endIndex)]]
    /\ UNCHANGED <<now, store, creq, rreq, logger, logs, vcall>>

\* SpecStats starts where SpecClicks stands after r2 and then r3 were
\* redirected at time 0 (no geo entry, Log delivered): the record of p1 has
\* their two clicks.  r1 and the stats request are still to come.
SeedClick(r) == [ts |-> 0, ip |-> <<r>>, country |-> GeoCountry("miss")]

SeedClicked(rs) ==
    [SeedDoc EXCEPT !.clicks = [i \in 1..Len(rs) |-> SeedClick(rs[i])],
                    !.clickCount = Len(rs)]

SeedRedirect(rs) ==
    [IdleRedirect EXCEPT !.pc = "done", !.shortcode = CodeAbcd,
                         !.doc = SeedClicked(rs), !.click = SeedClick(rs[Len(rs)]),
                         !.geo = "miss", !.written = TRUE, !.status = 302,
                         !.target = SeedUrl, !.log = "sent"]

InitStats ==
    /\ now = 0
    /\ store = {SeedClicked(<<"r2", "r3">>)}
    /\ faults = 0
    /\ creq = [p \in CreateReqs |-> IF p = "p1" THEN SeedCreate ELSE IdleCreate]
    /\ rreq = [r \in RedirectReqs |->
                 IF r = "r2" THEN SeedRedirect(<<"r2">>)
                 ELSE IF r = "r3" THEN SeedRedirect(<<"r2", "r3">>)
                 ELSE IdleRedirect]
    /\ logger = NewLoggingClient(FALSE)
    /\ logs = [h \in LogCallers |-> IdleLog]
    /\ sreq = [r \in StatsReqs |-> IdleStats]
    /\ vcall = IdleCall

\* The seeded state is one SpecClicks reaches.
StatsSeedReached ==
    /\ now = 0
    /\ store = {SeedClicked(<<"r2", "r3">>)}
    /\ rreq["r1"] = IdleRedirect
    /\ rreq["r2"] = SeedRedirect(<<"r2">>)
    /\ rreq["r3"] = SeedRedirect(<<"r2", "r3">>)

NextStats ==
    \/ \E r \in StatsReqs : Stats(r)
    \/ \E r \in MainRedirectReqs : RedirectLookup(r)
    \/ \E r \in MainRedirectReqs : RedirectAddClick(r)
    \/ \E r \in MainRedirectReqs : RedirectLog(r)
    \/ Tick
    \/ Sweep

SpecStats == InitStats /\ [][NextStats]_vars

(***************************************************************************)
(* SpecValidate: one call of validateUrl on an input drawn from            *)
(* ValidateUrlInputs.                                                      *)
(***************************************************************************)
ValidateUrlHosts ==
    {<<"example", "com">>, <<"localhost">>, <<"127", "0", "0", "1">>,
     <<"127", "0", "0", "2">>, <<"0", "0", "0", "0">>, <<"10", "1", "2", "3">>,
     <<"192", "168", "1", "1">>, <<"192", "169", "1", "1">>,
     <<"172", "15", "0", "1">>, <<"172", "16", "0", "1">>,
     <<"172", "31", "0", "1">>, <<"172", "32", "0", "1">>, << >>}

ValidateUrlInputs ==
    {NoUrl} \cup
    {Url(ws, scheme, host, "x") :
        ws \in BOOLEAN, scheme \in {"http", "https", "ftp", ""},
        host \in ValidateUrlHosts}

ValidateUrlCall ==
    /\ vcall.pc = "idle"
    /\ vcall' = [vcall EXCEPT !.pc = "done", !.result = validateUrl(vcall.input)]
    /\ UNCHANGED <<now, store, faults, creq, rreq, logger, logs, sreq>>

InitValidate ==
    /\ now = 0
    /\ store = {}
    /\ faults = 0
    /\ creq = [p \in CreateReqs |-> IdleCreate]
    /\ rreq = [r \in RedirectReqs |-> IdleRedirect]
    /\ logger = NewLoggingClient(FALSE)
    /\ logs = [h \in LogCallers |-> IdleLog]
    /\ sreq = [r \in StatsReqs |-> IdleStats]
    /\ vcall \in {[IdleCall EXCEPT !.input = u] : u \in ValidateUrlInputs}

NextValidate == ValidateUrlCall

SpecValidate == InitValidate /\ [][NextValidate]_vars

(***************************************************************************)
(* SpecValidity: one call of validateValidity(validity, 30) on an input    *)
(* drawn from ValidityCallInputs: absent, not a number, and the numbers    *)
(* from -1.0 to 4.0 and from 525599.0 to 525601.0 in steps of a tenth.     *)
(***************************************************************************)
ValidityCallTenths ==
    (-10 .. 40) \cup ((MaxValidityMinutes - 1) * 10 .. (MaxValidityMinutes + 1) * 10)

ValidityCallInputs ==
    {AbsentValidity, NaNValidity} \cup {NumValidity(t) : t \in ValidityCallTenths}

ValidateValidityCall ==
    /\ vcall.pc = "idle"
    /\ vcall' = [vcall EXCEPT !.pc = "done",
                              !.result = validateValidity(vcall.input,
                                                          defaultValidityMinutes)]
    /\ UNCHANGED <<now, store, faults, creq, rreq, logger, logs, sreq>>

InitValidity ==
    /\ now = 0
    /\ store = {}
    /\ faults = 0
    /\ creq = [p \in CreateReqs |-> IdleCreate]
    /\ rreq = [r \in RedirectReqs |-> IdleRedirect]
    /\ logger = NewLoggingClient(FALSE)
    /\ logs = [h \in LogCallers |-> IdleLog]
    /\ sreq = [r \in StatsReqs |-> IdleStats]
    /\ vcall \in {[pc |-> "idle", input |-> v,
                    result |-> [isValid |-> FALSE, validity |-> 0]] :
                      v \in ValidityCallInputs}

NextValidity == ValidateValidityCall

SpecValidity == InitValidity /\ [][NextValidity]_vars

(***************************************************************************)
(* SpecAlloc: one creation request against a store that earlier creations  *)
(* with the custom shortcodes "aaaaaa", "aaaaaaa" and "aaaaaaaa" (validity *)
(* 1, at time 0) have left some of their records in: the codes the model's *)
(* generator draws at lengths 6, 7 and 8.                                  *)
(***************************************************************************)
AllocReqs == {"p1"}

AllocSeedUrl == Url(FALSE, "https", <<"example", "com">>, "x")

AllocSeedDoc(id, n) == NewUrlDoc(id, [i \in 1..n |-> "a"], AllocSeedUrl, 1, 0)

AllocSeedDocs ==
    {AllocSeedDoc("x6", defaultLength), AllocSeedDoc("x7", defaultLength + 1),
     AllocSeedDoc("x8", defaultLength + 2)}

InitAlloc ==
    /\ now = 0
    /\ store \in SUBSET AllocSeedDocs
    /\ faults = 0
    /\ creq = [p \in CreateReqs |-> IdleCreate]
    /\ rreq = [r \in RedirectReqs |-> IdleRedirect]
    /\ logger = NewLoggingClient(FALSE)
    /\ logs = [h \in LogCallers |-> IdleLog]
    /\ sreq = [r \in StatsReqs |-> IdleStats]
    /\ vcall = IdleCall

NextAlloc ==
    \/ \E p \in AllocReqs : CreateStart(p)
    \/ \E p \in AllocReqs : CreateCheck(p)
    \/ \E p \in AllocReqs : CreateInsert(p)
    \/ \E p \in AllocReqs : CreateLog(p)
    \/ Tick
    \/ Sweep

SpecAlloc == InitAlloc /\ [][NextAlloc]_vars

(***************************************************************************)
(* SpecLog: the LoggingClient and the handlers' awaited Log calls.  A      *)
(* handler of LogCallers stands at its Log call (creation handler after    *)
(* the save, redirect handler after addClick).  Each step is one turn of   *)
(* the event loop: the arrival of a response or the firing of a timer,     *)
(* with every continuation it resumes.                                     *)
(***************************************************************************)
\* Log(stack, level, packageName, message, retries = 3)
LogRetries == 3

\* tokenExpiry = now + 50 * 60 * 1000 ms, in seconds.
TokenLifetime == 3000

\* How far the logging client's clock runs while retry timers wait, and how
\* often the service sits idle until the cached token expires.
MaxLogClock == 8
MaxTokenAges == 1

\* Mutant of isTokenValid: the expiry is not looked at.
isTokenValidForever(l) == l.token

\* LoggingClient.isTokenValid
isTokenValid(l) == l.token /\ l.clock < l.tokenExpiry

\* Math.pow(2, 3 - retries) * 1000 ms, in seconds.
RetryDelay(retries) == 2 ^ (3 - retries)

\* Mutant of LogCatch: no test of retries, a retry is always scheduled.
LogCatchAlwaysRetries(c, clock) ==
    [c EXCEPT !.pc = "timer", !.due = clock + RetryDelay(c.retries),
              !.returned = TRUE]

\* The catch block of Log: a detached retry after the delay, or giving up.
\* The invocation itself completes either way.
LogCatch(c, clock) ==
    IF c.retries > 0
    THEN [c EXCEPT !.pc = "timer", !.due = clock + RetryDelay(c.retries),
                   !.returned = TRUE]
    ELSE [c EXCEPT !.pc = "gaveup", !.returned = TRUE]

\* Mutant of AuthUnderWay: authenticate() never joins.
AuthUnderWayNever(l) == FALSE

\* authenticate(): if already authenticating, wait for the existing promise.
AuthUnderWay(l) == l.isAuthenticating /\ l.authPromise # "null"

\* One invocation of Log up to its first pending await: it returns at once
\* when the client is disabled; getValidToken hands out the cached token and
\* the POST is sent; or authenticate() joins the authentication under way or
\* starts one.
LogInvoke(l, c, retries) ==
    LET i == [c EXCEPT !.retries = retries] IN
    IF l.disabled
    THEN [logger |-> l, call |-> [i EXCEPT !.pc = "skipped", !.returned = TRUE]]
    ELSE IF isTokenValid(l)
    THEN [logger |-> l, call |-> [i EXCEPT !.pc = "post", !.attempts = @ + 1]]
    ELSE IF AuthUnderWay(l)
    THEN [logger |-> l, call |-> [i EXCEPT !.pc = "token", !.attempts = @ + 1]]
    ELSE [logger |-> [l EXCEPT !.isAuthenticating = TRUE, !.authPromise = "pending",
                               !.auths = @ + 1],
          call |-> [i EXCEPT !.pc = "token", !.attempts = @ + 1]]

\* h1 is a creation handler, h2 a redirect handler.
HandlerKind(h) == IF h = "h1" THEN "create" ELSE "redirect"

\* The handler reaches await loggingClient.Log(...).
HandlerCallLog(h) ==
    /\ logs[h].pc = "idle"
    /\ LET r == LogInvoke(logger, [logs[h] EXCEPT !.kind = HandlerKind(h)], LogRetries)
       IN  /\ logger' = r.logger
           /\ logs' = [logs EXCEPT ![h] = r.call]
    /\ UNCHANGED <<sreq, vcall, now, store, faults, creq, rreq>>

\* The authentication request is answered with a token, or fails or times
\* out: _performAuth settles, authenticate() clears isAuthenticating, and
\* every Log invocation waiting for the token goes on to its POST or to its
\* catch block.
AuthSettle ==
    /\ logger.authPromise = "pending"
    /\ \E ok \in BOOLEAN :
         /\ logger' = [logger EXCEPT
                          !.authPromise = IF ok THEN "resolved" ELSE "rejected",
                          !.isAuthenticating = FALSE,
                          !.token = IF ok THEN TRUE ELSE @,
                          !.tokenExpiry = IF ok THEN logger.clock + TokenLifetime ELSE @]
         /\ logs' = [h \in LogCallers |->
                        IF logs[h].pc # "token" THEN logs[h]
                        ELSE IF ok THEN [logs[h] EXCEPT !.pc = "post"]
                        ELSE LogCatch(logs[h], logger.clock)]
    /\ UNCHANGED <<sreq, vcall, now, store, faults, creq, rreq>>

\* The POST to the log service is answered, or fails or times out.
PostSettle(h) ==
    /\ logs[h].pc = "post"
    /\ \E ok \in BOOLEAN :
         logs' = [logs EXCEPT ![h] =
                    IF ok THEN [@ EXCEPT !.pc = "delivered", !.returned = TRUE]
                    ELSE LogCatch(@, logger.clock)]
    /\ UNCHANGED <<sreq, vcall, now, store, faults, creq, rreq, logger>>

\* The setTimeout of the catch block fires: Log(..., retries - 1).
TimerFire(h) ==
    /\ logs[h].pc = "timer"
    /\ logs[h].due <= logger.clock
    /\ LET r == LogInvoke(logger, logs[h], logs[h].retries - 1)
       IN  /\ logger' = r.logger
           /\ logs' = [logs EXCEPT ![h] = r.call]
    /\ UNCHANGED <<sreq, vcall, now, store, faults, creq, rreq>>

\* The handler's await of Log has completed: res.status(201).json(response)
\* or res.redirect(302, ...).
HandlerRespond(h) ==
    /\ logs[h].returned
    /\ logs[h].status = 0
    /\ logs' = [logs EXCEPT ![h].status = IF logs[h].kind = "create" THEN 201 ELSE 302]
    /\ UNCHANGED <<sreq, vcall, now, store, faults, creq, rreq, logger>>

\* Time passes while a retry timer is waiting for its delay to run out.
LogTick ==
    /\ logger.clock < logger.ages * TokenLifetime + MaxLogClock
    /\ \E h \in LogCallers : logs[h].pc = "timer" /\ logs[h].due > logger.clock
    /\ logger' = [logger EXCEPT !.clock = @ + 1]
    /\ UNCHANGED <<sreq, vcall, now, store, faults, creq, rreq, logs>>

\* Nothing is under way (no authentication, no POST, no retry timer) and no
\* request arrives until the cached token's expiry time has come.
TokenAges ==
    /\ logger.ages < MaxTokenAges
    /\ isTokenValid(logger)
    /\ \A h \in LogCallers : logs[h].pc \notin {"token", "post", "timer"}
    /\ logger' = [logger EXCEPT !.clock = logger.tokenExpiry, !.ages = @ + 1]
    /\ UNCHANGED <<sreq, vcall, now, store, faults, creq, rreq, logs>>

InitLog ==
    /\ now = 0
    /\ store = {}
    /\ faults = 0
    /\ creq = [p \in CreateReqs |-> IdleCreate]
    /\ rreq = [r \in RedirectReqs |-> IdleRedirect]
    /\ logger \in {NewLoggingClient(disabled) : disabled \in BOOLEAN}
    /\ logs = [h \in LogCallers |-> IdleLog]
    /\ sreq = [r \in StatsReqs |-> IdleStats]
    /\ vcall = IdleCall

NextLog ==
    \/ \E h \in LogCallers : HandlerCallLog(h)
    \/ AuthSettle
    \/ \E h \in LogCallers : PostSettle(h)
    \/ \E h \in LogCallers : TimerFire(h)
    \/ \E h \in LogCallers : HandlerRespond(h)
    \/ LogTick
    \/ TokenAges

SpecLog == InitLog /\ [][NextLog]_vars

(***************************************************************************)
(* Claims.                                                                 *)
(***************************************************************************)
CreateDone(p) == creq[p].pc = "done"

InStore(id) == \E d \in store : d.id = id

\* C1: in every reachable state no two records of the store have the same
\* shortcode, whatever the interleaving of the creation requests.
C1_UniqueShortcodes ==
    \A d, e \in store : d.shortcode = e.shortcode => d = e

\* C1 witness: two creations raced for one code; one holds the record, the
\* other passed the availability check and was rejected by the unique index.
C1_Witness ==
    \E p, q \in CreateReqs :
        /\ p # q
        /\ creq[p].status = 201
        /\ InStore(p)
        /\ creq[q].dup
        /\ creq[q].shortcode = creq[p].shortcode

\* A creation request that got past the validators with an expiry in the
\* future, asked for a custom code, and met no store failure.
CustomWellFormed(p) ==
    /\ CreateDone(p)
    /\ creq[p].custom
    /\ creq[p].validity >= 1
    /\ ~creq[p].fault

\* C2, the outcome: of two well-formed creation requests with the same custom
\* code, in any interleaving, exactly one is answered 201 and the other 409,
\* as long as the winner's record has not been swept from the store.
C2_OneWins ==
    \A p, q \in CreateReqs :
        ( /\ p # q
          /\ CustomWellFormed(p)
          /\ CustomWellFormed(q)
          /\ creq[p].shortcode = creq[q].shortcode
          /\ \A x \in {p, q} : creq[x].status = 201 => InStore(x) )
        => \/ creq[p].status = 201 /\ creq[q].status = 409
           \/ creq[p].status = 409 /\ creq[q].status = 201

\* C2, the order: a custom-code request whose availability check or insert
\* reaches the store when the code is already there (it runs after the other
\* one, or lost the race) is answered 409.
C2_LaterLoses ==
    \A q \in CreateReqs :
        ( /\ creq[q].pc \in {"check", "insert"}
          /\ creq[q].custom
          /\ creq'[q] # creq[q]
          /\ ~creq'[q].fault
          /\ shortcodeExists(store, creq[q].shortcode) )
        => creq'[q].pc = "done" /\ creq'[q].status = 409

\* C2: two POST /shorturls with the same valid custom shortcode: run
\* concurrently, exactly one is answered 201 and the other 409; run one after
\* the other, the second is answered 409.
C2_SameCustomCode == []C2_OneWins /\ [][C2_LaterLoses]_vars

\* C2 witness: both requests passed the availability check before either
\* saved; one was answered 201, the other 409 by the store's rejection.
C2_Witness ==
    \E p, q \in CreateReqs :
        /\ p # q
        /\ CustomWellFormed(p) /\ CustomWellFormed(q)
        /\ creq[p].shortcode = creq[q].shortcode
        /\ creq[p].status = 201 /\ InStore(p)
        /\ creq[q].status = 409 /\ creq[q].dup

\* C3: a creation whose insert the store rejected with a duplicate-key error
\* is answered 409, never 500, for custom and generated codes alike.
C3_DuplicateKeyIs409 ==
    \A p \in CreateReqs : creq[p].dup => CreateDone(p) /\ creq[p].status = 409

\* C3 witness: a generated code was taken between the availability check and
\* the save, and the request was answered 409.
C3_Witness ==
    \E p \in CreateReqs : creq[p].dup /\ ~creq[p].custom /\ creq[p].status = 409

\* The step in which findOne answers redirect request r without a store
\* failure.
LookupStep(r) ==
    /\ rreq[r].pc = "idle"
    /\ rreq'[r].pc # "idle"
    /\ ~rreq'[r].fault

C5_LiveRedirects ==
    [][\A r \in MainRedirectReqs :
          /\ \A p \in CreateReqs :
                ( /\ LookupStep(r)
                  /\ creq[p].status = 201
                  /\ rreq'[r].shortcode = creq[p].shortcode
                  /\ now < creq[p].expiryAt )
                => /\ rreq'[r].pc = "addClick"
                   /\ rreq'[r].doc.originalUrl = creq[p].url
                   /\ rreq'[r].doc.expiryAt = creq[p].expiryAt
          /\ ( /\ rreq[r].pc = "addClick"
               /\ rreq'[r].pc # "addClick"
               /\ ~rreq'[r].fault
               /\ now < rreq[r].doc.expiryAt )
             => rreq'[r].pc = "log"
          /\ (rreq[r].pc = "log" /\ rreq'[r].pc # "log")
             => /\ rreq'[r].pc = "done"
                /\ rreq'[r].status = 302
                /\ rreq'[r].target = rreq[r].doc.originalUrl]_vars

\* No redirect request is between its lookup and its response.
RedirectsQuiescent == \A r \in RedirectReqs : rreq[r].pc \in {"idle", "done"}

\* The redirect requests answered 302 for the record with this id.
Redirected(id) == {r \in RedirectReqs : rreq[r].status = 302 /\ rreq[r].doc.id = id}

\* C6: after N GET /{code} requests against one live code were each answered
\* 302, in any interleaving, the stored record has clickCount = N and N clicks.
C6_ClickAccounting ==
    RedirectsQuiescent =>
        \A d \in store :
            /\ d.clickCount = Cardinality(Redirected(d.id))
            /\ Len(d.clicks) = Cardinality(Redirected(d.id))

\* C7: in every reachable state each record's clickCount equals the length of
\* its clicks list and is not negative.
C7_CountIsLength ==
    \A d \in store : d.clickCount = Len(d.clicks) /\ d.clickCount >= 0

IsPrefix(s, t) == Len(s) <= Len(t) /\ SubSeq(t, 1, Len(s)) = s

\* C8: across every store transition a record's clickCount never decreases and
\* its previous clicks list is a prefix of its new one.
C8_ClicksOnlyGrow ==
    [][\A d \in store, e \in store' :
          d.id = e.id =>
            /\ e.clickCount >= d.clickCount
            /\ IsPrefix(d.clicks, e.clicks)]_vars

\* C9: a redirect is answered 302 only after its click was persisted; a
\* request whose click write failed is answered 500 with no redirect; and the
\* handler goes from the lookup and expiry check to the click write, from
\* there to the audit log, and only from there to the redirect.
C9_Steps(r) ==
    /\ rreq'[r].pc # rreq[r].pc =>
          <<rreq[r].pc, rreq'[r].pc>> \in
              {<<"idle", "done">>, <<"idle", "addClick">>, <<"addClick", "done">>,
               <<"addClick", "log">>, <<"log", "done">>}
    /\ (rreq[r].status # 302 /\ rreq'[r].status = 302) =>
          rreq[r].pc = "log" /\ rreq[r].written
    /\ (rreq[r].pc = "idle" /\ rreq'[r].pc = "addClick") =>
          ~isExpired(rreq'[r].doc, now) /\ ~rreq'[r].written
    /\ (~rreq[r].written /\ rreq'[r].written) =>
          /\ rreq[r].pc = "addClick"
          /\ \E e \in store' :
                /\ e.id = rreq[r].doc.id
                /\ e.clicks # << >>
                /\ e.clicks[Len(e.clicks)] = rreq[r].click

C9_FailClosed(r) ==
    /\ rreq[r].status = 302 => rreq[r].written /\ rreq[r].target = rreq[r].doc.originalUrl
    /\ (rreq[r].pc = "done" /\ rreq[r].click # NoClick /\ ~rreq[r].written) =>
          rreq[r].status = 500 /\ rreq[r].target = NoUrl

C9_ClickBeforeRedirect ==
    /\ [](\A r \in MainRedirectReqs : C9_FailClosed(r))
    /\ [][\A r \in MainRedirectReqs : C9_Steps(r)]_vars

\* C9 witness: the click write of a redirect failed and the request was
\* answered 500 without a redirect.
C9_Witness ==
    \E r \in MainRedirectReqs :
        /\ rreq[r].pc = "done"
        /\ rreq[r].click # NoClick
        /\ ~rreq[r].written
        /\ rreq[r].status = 500

\* The status a finished redirect has by its store operations alone.
RedirectStatusByStore(q) ==
    IF q.doc = NoDoc THEN (IF q.fault THEN 500 ELSE 404)
    ELSE IF q.click = NoClick THEN 410
    ELSE IF q.written THEN 302
    ELSE 500

\* C10: the HTTP outcome of a creation or a redirect does not depend on the
\* audit-log call or the geo lookup: a request that reached the Log call is
\* answered 201 (creation) or 302 (redirect) whatever Log did, a finished
\* redirect's status is the one its store operations give, and a failed geo
\* lookup leaves the click to be recorded with no country.
C10_SideChannelsAbsorbed ==
    /\ \A p \in CreateReqs :
          creq[p].log # "none" => creq[p].status = 201
    /\ \A r \in MainRedirectReqs :
          /\ rreq[r].log # "none" => rreq[r].status = 302 /\ rreq[r].written
          /\ rreq[r].pc = "done" => rreq[r].status = RedirectStatusByStore(rreq[r])
          /\ rreq[r].geo # "none" =>
                /\ rreq[r].click # NoClick
                /\ rreq[r].click.country = GeoCountry(rreq[r].geo)
                /\ rreq[r].written =>
                      \A d \in store : d.id = rreq[r].doc.id =>
                          \E i \in 1..Len(d.clicks) : d.clicks[i] = rreq[r].click

\* C10 witness: a creation was answered 201 and a redirect 302, its click
\* recorded, although the Log call failed both times and the geo lookup threw.
C10_Witness ==
    \E p \in CreateReqs, r \in MainRedirectReqs :
        /\ creq[p].status = 201 /\ creq[p].log = "failed"
        /\ rreq[r].status = 302 /\ rreq[r].log = "failed" /\ rreq[r].geo = "throw"
        /\ \E d \in store : d.id = rreq[r].doc.id /\ rreq[r].click \in {d.clicks[i] : i \in 1..Len(d.clicks)}

\* The first delivery attempt of a handler's Log call is still pending: the
\* token is being acquired or the POST is in flight.
LogPending(h) == logs[h].pc \in {"token", "post"} /\ ~logs[h].returned

\* C11: the audit-log call never blocks the request: while the first delivery
\* attempt of a handler's Log call is pending, the handler's response has been
\* sent or can be sent at once, without waiting for the attempt to complete.
C11_ResponseNotBlocked ==
    \A h \in LogCallers :
        LogPending(h) => logs[h].status # 0 \/ ENABLED HandlerRespond(h)

\* The creation request was answered 201 or is past its insert.
Created(p) == creq[p].status = 201 \/ creq[p].pc = "log"

\* C12: a creation without a custom shortcode whose insert is rejected as a
\* duplicate is retried with a new code and not answered with a failure; a
\* creation with a custom shortcode is not retried and is answered 409.
C12_GeneratedRetried ==
    \A p \in CreateReqs :
        creq[p].dup =>
            IF creq[p].custom
            THEN CreateDone(p) /\ creq[p].status = 409
            ELSE creq[p].status \notin {409, 500}

\* C13 as claimed: over a whole run, the sweep included, two distinct creation
\* requests answered 201 were given different codes.
C13_Original ==
    \A p, q \in CreateReqs :
        (p # q /\ creq[p].status = 201 /\ creq[q].status = 201)
            => creq[p].shortcode # creq[q].shortcode

\* C13 amended: a creation is given a code that an earlier successful creation
\* was given only after the earlier record has reached its expiryAt and the
\* sweep has removed it; two records in the store never share a code.
C13_ReuseOnlyAfterPurge ==
    [][\A p \in CreateReqs :
          (creq[p].pc = "insert" /\ creq'[p].pc = "log") =>
              /\ \A q \in CreateReqs \ {p} :
                    (Created(q) /\ creq[q].shortcode = creq[p].shortcode)
                        => ~InStore(q) /\ creq[q].expiryAt <= now
              /\ \A d \in store : d.shortcode # creq[p].shortcode
              /\ \E d \in store' : d.id = p /\ d.shortcode = creq[p].shortcode]_vars

\* C13 witness: two creations were answered 201 with the same code, the
\* record of one purged and the record of the other in the store.
C13_Witness ==
    \E p, q \in CreateReqs :
        /\ p # q
        /\ creq[p].status = 201 /\ creq[q].status = 201
        /\ creq[p].shortcode = creq[q].shortcode
        /\ ~InStore(q) /\ InStore(p)

\* The allocator gave up: generateUniqueShortcode ran out of attempts.
Exhausted(p) == ~creq[p].custom /\ creq[p].attempts >= maxRetries * 3

\* C14: POST /shorturls answers 500 only when the allocator is exhausted or a
\* store operation failed; in particular a request with an accepted url, an
\* accepted validity and an available code is not answered 500.
C14_Only500OnFailure ==
    \A p \in CreateReqs :
        (CreateDone(p) /\ creq[p].status = 500) => creq[p].fault \/ Exhausted(p)

\* C15: every record in the store has expiryAt strictly greater than its
\* createdAt, and a document whose expiryAt is not after the time of its
\* save() is never inserted.
C15_ExpiryAfterCreation ==
    /\ [](\A d \in store : d.expiryAt > d.createdAt)
    /\ [][\A p \in CreateReqs :
             (creq'[p].pc = "insert" /\ creq[p].pc # "insert")
                 => creq'[p].expiryAt > now /\ creq'[p].createdAt = now]_vars
    /\ [][\A d \in {e \in store' : ~InStore(e.id)} :
             /\ d.expiryAt = creq[d.id].expiryAt
             /\ d.createdAt = creq[d.id].createdAt
             /\ creq[d.id].pc = "insert"]_vars

\* C15 witness: a record is in the store, and a request whose validity
\* rounded to 0 was stopped by the pre-save hook: nothing of it was stored.
C15_Witness ==
    \E p, q \in CreateReqs :
        /\ InStore(p)
        /\ CreateDone(q) /\ creq[q].status = 500 /\ ~creq[q].fault
        /\ creq[q].expiryAt = creq[q].createdAt
        /\ ~InStore(q)

\* A string of 4 to 20 alphanumeric characters.
WellFormedCode(code) ==
    Len(code) >= minCustomLength /\ Len(code) <= maxCustomLength /\ IsAlnum(code)

\* C16: for a request that supplies a shortcode, processShortcode decides by
\* syntax first and availability second: a code that is not 4-20 alphanumeric
\* characters after trimming gives 400, a well-formed code the store holds
\* gives 409, and the request goes on only with exactly the trimmed code it
\* supplied, never with a generated one.
C16_SuppliedCodeDecides ==
    /\ [](\A p \in CreateReqs :
             creq[p].supplied =>
                 \/ creq[p].status = 400
                 \/ creq[p].custom /\ WellFormedCode(creq[p].shortcode))
    /\ [][\A p \in CreateReqs :
             (creq[p].pc = "check" /\ creq[p].supplied /\ creq'[p].pc # "check"
                  /\ ~creq'[p].fault)
                 => IF shortcodeExists(store, creq[p].shortcode)
                    THEN creq'[p].status = 409
                    ELSE creq'[p].shortcode = creq[p].shortcode
                         /\ creq'[p].status \in {0, 500}]_vars

\* The step that handles a stats request.
StatsStep(r) == sreq[r].pc = "idle" /\ sreq'[r].pc = "done"

\* page < 1, limit < 1, limit > 1000, or not a number.
PaginationRejected(query) ==
    \/ query.page.kind = "nan"
    \/ query.page.kind = "num" /\ query.page.tenths < 10
    \/ query.limit.kind = "nan"
    \/ query.limit.kind = "num" /\ query.limit.tenths < 10
    \/ query.limit.kind = "num" /\ query.limit.tenths > 1000 * 10

\* C17: for an existing code and an accepted (page, limit), the stats request
\* returns the clicks of the record at indices (page-1)*limit up to but not
\* including (page-1)*limit+limit, in stored order, empty past the end, and
\* totalClicks is the stored clickCount; page defaults to 1 and limit to 50;
\* page < 1, limit < 1 and limit > 1000 are answered 400.
C17_StatsPage ==
    [][\A r \in StatsReqs :
          StatsStep(r) =>
            LET q == sreq'[r]
                held == {d \in store : d.shortcode = q.shortcode}
                offset == (q.page - 1) * q.limit
            IN  /\ q.status = 400 <=> PaginationRejected(q.query)
                /\ (q.status # 400 /\ q.query.page.kind = "absent") => q.page = 1
                /\ (q.status # 400 /\ q.query.limit.kind = "absent") => q.limit = 50
                /\ q.status # 400 => q.page >= 1 /\ q.limit >= 1 /\ q.limit <= 1000
                /\ (q.status # 400 /\ ~q.fault) =>
                      IF held = {} THEN q.status = 404
                      ELSE /\ q.status = 200
                           /\ \E d \in held :
                                LET rest == Len(d.clicks) - offset
                                    n == IF rest <= 0 THEN 0
                                         ELSE IF q.limit < rest THEN q.limit ELSE rest
                                IN  /\ q.totalClicks = d.clickCount
                                    /\ Len(q.clicks) = n
                                    /\ \A i \in 1..n : q.clicks[i] = d.clicks[offset + i]]_vars

\* C17 witness: a stats request with page 2 and limit 1 was answered 200 with
\* the second click of the record alone.
C17_Witness ==
    \E r \in StatsReqs :
        /\ sreq[r].status = 200
        /\ sreq[r].page = 2 /\ sreq[r].limit = 1
        /\ sreq[r].clicks = <<SeedClick("r3")>>
        /\ sreq[r].totalClicks >= 2

\* The stored fields of record d that no operation may change are the same in e.
SameIdentity(d, e) ==
    /\ e.id = d.id
    /\ e.shortcode = d.shortcode
    /\ e.originalUrl = d.originalUrl
    /\ e.createdAt = d.createdAt
    /\ e.expiryAt = d.expiryAt

\* C18: no operation changes the shortcode, originalUrl, createdAt or expiryAt
\* of a stored record; a redirect changes only clicks and clickCount of the one
\* record it read; a request answered 404, 410 or 400 and a stats request
\* leave the store as it is; a record leaves the store only by the TTL sweep,
\* when its expiryAt has been reached.
C18_Frame ==
    [][/\ \A d \in store :
             \/ d \in store'
             \/ \E e \in store' :
                   /\ SameIdentity(d, e)
                   /\ \E r \in RedirectReqs :
                         /\ rreq[r].pc = "addClick" /\ rreq'[r].written
                         /\ rreq[r].doc.id = d.id
                         /\ store' \ {e} = store \ {d}
             \/ /\ \A e \in store' : e.id # d.id
                /\ d.expiryAt <= now
                /\ store' = store \ {d}
                /\ <<creq', rreq', sreq'>> = <<creq, rreq, sreq>>
       /\ \A r \in StatsReqs : sreq'[r] # sreq[r] => store' = store
       /\ \A r \in RedirectReqs :
             (rreq[r].status = 0 /\ rreq'[r].status \in {404, 410}) => store' = store
       /\ \A p \in CreateReqs :
             (creq[p].status = 0 /\ creq'[p].status = 400) => store' = store]_vars

\* C18 witness: the record was read by a stats request and clicked by a
\* redirect, both answered with success, and has then been swept.
C18_Witness ==
    /\ store = {}
    /\ \E r \in MainRedirectReqs : rreq[r].status = 302
    /\ \E r \in StatsReqs : sreq[r].status = 200

\* C20 as claimed: neither the redirect handler nor the stats handler answers
\* with success for a record that it reads after the record's expiryAt.
C20_Original ==
    [][/\ \A r \in MainRedirectReqs :
             (LookupStep(r) /\ \E d \in store : d.shortcode = rreq'[r].shortcode
                                               /\ now > d.expiryAt)
                 => rreq'[r].pc = "done" /\ rreq'[r].status # 302
       /\ \A r \in StatsReqs :
             (StatsStep(r) /\ \E d \in store : d.shortcode = sreq'[r].shortcode
                                              /\ now > d.expiryAt)
                 => sreq'[r].status # 200]_vars

\* C20 amended: the redirect handler compares the time with expiryAt when it
\* reads a record and goes on to the click and the 302 only if the record is
\* not expired then; the stats handler makes no comparison and answers 200
\* for every record the store holds, expired or not.
C20_OnlyRedirectChecksExpiry ==
    [][/\ \A r \in MainRedirectReqs :
             LookupStep(r) =>
                 /\ rreq'[r].pc = "addClick" => now <= rreq'[r].doc.expiryAt
                 /\ (\E d \in store : d.shortcode = rreq'[r].shortcode /\ now > d.expiryAt)
                       => rreq'[r].status = 410
       /\ \A r \in StatsReqs :
             (StatsStep(r) /\ sreq'[r].status # 400 /\ ~sreq'[r].fault
                  /\ \E d \in store : d.shortcode = sreq'[r].shortcode)
                 => sreq'[r].status = 200]_vars

\* C20 witness: a stats request handled after the record's expiryAt was
\* answered 200 and a redirect handled then was answered 410, the record
\* still in the store.
C20_Witness ==
    \E r \in MainRedirectReqs, t \in StatsReqs, d \in store :
        /\ sreq[t].status = 200 /\ sreq[t].shortcode = d.shortcode
        /\ sreq[t].ts > d.expiryAt
        /\ rreq[r].status = 410 /\ rreq[r].shortcode = d.shortcode

\* A loopback, unspecified or private-range host: localhost, 127.*, 0.0.0.0,
\* 10.*, 192.168.*, 172.16.* to 172.31.*.
IsLocalAddress(h) ==
    \/ h = <<"localhost">>
    \/ h = <<"0", "0", "0", "0">>
    \/ (Len(h) = 4 /\ h[1] \in {"127", "10"})
    \/ (Len(h) = 4 /\ h[1] = "192" /\ h[2] = "168")
    \/ (Len(h) = 4 /\ h[1] = "172"
          /\ h[2] \in {"16", "17", "18", "19", "20", "21", "22", "23",
                       "24", "25", "26", "27", "28", "29", "30", "31"})

\* C19: validateUrl accepts an input only if, trimmed, it starts with http://
\* or https:// and its host is not a loopback, unspecified or private-range
\* address; the verdict is the same for the input with whitespace around it;
\* on acceptance the trimmed string is returned.
C19_ValidateUrl ==
    vcall.pc = "done" =>
        LET u == vcall.input
            res == vcall.result
        IN  /\ res.isValid => u.scheme \in {"http", "https"} /\ ~IsLocalAddress(u.host)
            /\ res.isValid = validateUrl([u EXCEPT !.ws = TRUE]).isValid
            /\ res.isValid = validateUrl([u EXCEPT !.ws = FALSE]).isValid
            /\ res.isValid => res.url = [u EXCEPT !.ws = FALSE]

\* The generated candidate of request p is being checked for availability.
Checking(p) == creq[p].pc = "check" /\ ~creq[p].custom

\* C21: generateUniqueShortcode(L) with maxRetries R terminates: the candidate
\* it checks after k unavailable ones has length L + k div R, so R candidates
\* of length L, then R of L+1, then R of L+2; the first candidate the store
\* reports absent is the one returned; every unavailable candidate counts,
\* and the 3R-th ends the allocation with statusCode 500 and no candidate of
\* length L+3.
C21_AllocatorTiers ==
    /\ [](\A p \in CreateReqs :
             Checking(p) =>
                 /\ creq[p].attempts < 3 * maxRetries
                 /\ creq[p].currentLength = defaultLength + creq[p].attempts \div maxRetries
                 /\ Len(creq[p].shortcode) = creq[p].currentLength
                 /\ Len(creq[p].shortcode) < defaultLength + 3)
    /\ [][\A p \in CreateReqs :
             (Checking(p) /\ creq'[p] # creq[p] /\ ~creq'[p].fault) =>
                 IF ~shortcodeExists(store, creq[p].shortcode)
                 THEN /\ creq'[p].shortcode = creq[p].shortcode
                      /\ creq'[p].attempts = creq[p].attempts
                      /\ creq'[p].pc \in {"insert", "done"}
                 ELSE /\ creq'[p].attempts = creq[p].attempts + 1
                      /\ IF creq'[p].attempts = 3 * maxRetries
                         THEN creq'[p].pc = "done" /\ creq'[p].status = 500
                         ELSE Checking(p)']_vars

\* C21 witness: the allocator found fifteen candidates taken, five at each of
\* the lengths 6, 7 and 8, and the request was answered 500.
C21_Witness ==
    \E p \in AllocReqs :
        /\ CreateDone(p) /\ creq[p].status = 500 /\ ~creq[p].fault
        /\ ~creq[p].custom
        /\ creq[p].attempts = 3 * maxRetries
        /\ Len(creq[p].shortcode) = defaultLength + 2

\* C22: validateValidity returns the default for an absent input; rejects an
\* input that is not a number, is <= 0 or is > 525600; and for every other
\* input returns the nearest integer, which lies in 1..525600.
\* Refuted by the inputs between 0 and 0.5: they are accepted and the value
\* returned is 0.
C22_ValidateValidity ==
    vcall.pc = "done" =>
        LET v == vcall.input
            res == vcall.result
        IN  IF v.kind = "absent"
            THEN res.isValid /\ res.validity = defaultValidityMinutes
            ELSE IF v.kind = "nan" \/ v.tenths <= 0 \/ v.tenths > 525600 * 10
            THEN ~res.isValid
            ELSE /\ res.isValid
                 /\ res.validity \in 1..525600
                 /\ 10 * res.validity - v.tenths \in -5..5

\* C23: in every reachable state the clicks of each record are in
\* chronological order: the ts of a click is not before the ts of the click
\* stored ahead of it, also when concurrent redirects persist their clicks in
\* another order than they took their timestamps.
\* Refuted by a redirect that takes its timestamp, and writes its click only
\* after a redirect that arrived later has written its own.
C23_ClicksChronological ==
    \A d \in store :
        \A i \in 1..(Len(d.clicks) - 1) : d.clicks[i].ts <= d.clicks[i + 1].ts

\* The delay before delivery attempt n + 1, in seconds: 1, 2, 4.
BackoffAfter(n) == IF n = 1 THEN 1 ELSE IF n = 2 THEN 2 ELSE 4

\* C24: every Log call ends its retry chain: at most 4 delivery attempts, the
\* retries 1 s, 2 s and 4 s after the failure before them; no attempt after a
\* delivery; after the fourth failure the call gives up, and the caller has
\* its Log call returned without an error either way.
C24_RetryChainEnds ==
    /\ [](\A h \in LogCallers :
             /\ logs[h].attempts <= 4
             /\ logs[h].pc \in {"token", "post", "timer", "delivered", "gaveup"}
                    => logs[h].attempts = LogRetries - logs[h].retries + 1
             /\ logs[h].pc = "timer" => logs[h].attempts < 4
             /\ logs[h].pc = "gaveup" => logs[h].attempts = 4
             /\ logs[h].pc \in {"timer", "delivered", "gaveup"} => logs[h].returned
             /\ logs[h].status \in {0, 201, 302})
    /\ [][\A h \in LogCallers :
             /\ (logs[h].pc # "timer" /\ logs'[h].pc = "timer")
                    => logs'[h].due = logger.clock + BackoffAfter(logs[h].attempts)
             /\ (logs[h].pc = "timer" /\ logs'[h].pc # "timer")
                    => /\ logger.clock >= logs[h].due
                       /\ logs'[h].attempts = logs[h].attempts + 1
             /\ logs'[h].attempts # logs[h].attempts
                    => logs[h].pc \in {"idle", "timer"}
             /\ logs[h].pc \in {"delivered", "gaveup", "skipped"}
                    => /\ logs'[h].pc = logs[h].pc
                       /\ logs'[h].attempts = logs[h].attempts
             /\ (logs[h].pc \in {"token", "post"} /\ logs'[h].pc # logs[h].pc
                      /\ logs[h].attempts = 4)
                    => logs'[h].pc \in {"post", "delivered", "gaveup"}]_vars

\* C24 witness: a Log call failed four times, the last attempt seven seconds
\* after the first, and gave up; its handler had its response sent.
C24_Witness ==
    \E h \in LogCallers :
        /\ logs[h].pc = "gaveup"
        /\ logs[h].attempts = 4
        /\ logs[h].retries = 0
        /\ logger.clock >= 7
        /\ logs[h].status # 0

\* An invocation of Log by handler h starts in this step.
LogStarts(h) == logs'[h].attempts = logs[h].attempts + 1

\* C25: the client authenticates lazily and caches the token: no
\* authentication request before the first Log call; none by a Log call made
\* while the cached token's expiry, 50 minutes after it was obtained, lies
\* ahead; and a Log call made with no token or an expired one has an
\* authentication under way before it sends.
C25_LazyCachedToken ==
    /\ []((\A h \in LogCallers : logs[h].pc = "idle") => logger.auths = 0)
    /\ [](logger.token => logger.tokenExpiry >= TokenLifetime)
    /\ [][/\ logger'.auths # logger.auths =>
                /\ logger'.auths = logger.auths + 1
                /\ ~(logger.token /\ logger.clock < logger.tokenExpiry)
                /\ \E h \in LogCallers : LogStarts(h)
          /\ (~logger.token /\ logger'.token) =>
                logger'.tokenExpiry = logger.clock + 50 * 60
          /\ logger'.tokenExpiry # logger.tokenExpiry =>
                logger'.tokenExpiry = logger.clock + 50 * 60
          /\ \A h \in LogCallers :
                LogStarts(h) =>
                    IF logger.token /\ logger.clock < logger.tokenExpiry
                    THEN logs'[h].pc = "post" /\ logger' = logger
                    ELSE /\ logs'[h].pc = "token"
                         /\ logger'.authPromise = "pending"
                         /\ \/ logger'.auths = logger.auths + 1
                            \/ logger.authPromise = "pending"
          /\ \A h \in LogCallers :
                (logs[h].pc = "token" /\ logs'[h].pc = "post") =>
                    /\ logger.authPromise = "pending"
                    /\ logger'.token /\ logger'.clock < logger'.tokenExpiry]_vars

\* C25 witness: a Log call was delivered with the first token; the token
\* expired; the next Log call authenticated again and was delivered.
C25_Witness ==
    /\ logger.auths = 2
    /\ logger.clock >= TokenLifetime
    /\ logger.token /\ logger.tokenExpiry >= 2 * TokenLifetime
    /\ \A h \in LogCallers : logs[h].pc = "delivered" /\ logs[h].attempts = 1

\* An authentication request is in flight.
AuthPending == logger.authPromise = "pending"

\* C30: at most one authentication request is in flight: a request is sent
\* only when none is pending; the Log calls waiting for a token all wait for
\* the pending authentication and go on with its token or fail with its
\* failure when it settles; isAuthenticating is true exactly while an
\* authentication is pending.
C30_SingleAuthentication ==
    /\ [](/\ logger.isAuthenticating <=> AuthPending
          /\ \A h \in LogCallers : logs[h].pc = "token" => AuthPending)
    /\ [][/\ logger'.auths # logger.auths => ~AuthPending /\ AuthPending'
          /\ \A h \in LogCallers :
                (LogStarts(h) /\ AuthPending) =>
                    /\ logs'[h].pc = "token"
                    /\ logger' = logger
          /\ (AuthPending /\ ~AuthPending') =>
                /\ ~logger'.isAuthenticating
                /\ logger'.authPromise \in {"resolved", "rejected"}
                /\ logger'.auths = logger.auths
                /\ \A h \in LogCallers :
                      logs[h].pc = "token" =>
                          IF logger'.authPromise = "resolved"
                          THEN logs'[h].pc = "post" /\ logger'.token
                          ELSE logs'[h].pc \in {"timer", "gaveup"}]_vars

\* C30 witness: two Log calls waited for one authentication, it failed, and
\* both went to their first retry; the flag is clear.
C30_Witness ==
    /\ logger.auths = 1
    /\ ~logger.token
    /\ ~logger.isAuthenticating
    /\ \A h \in LogCallers : logs[h].pc = "timer" /\ logs[h].attempts = 1

\* C26: a store failure during an availability check ends the allocation at
\* once: no further candidate is tried, the request is answered 500 through
\* the result of processShortcode, and no record of the request is written
\* then or later.
C26_CheckFailureStops ==
    /\ [](\A p \in CreateReqs :
             creq[p].fault =>
                 CreateDone(p) /\ creq[p].status = 500 /\ ~InStore(p))
    /\ [][\A p \in CreateReqs :
             /\ (creq[p].pc = "check" /\ creq'[p].fault) =>
                    /\ creq'[p].pc = "done"
                    /\ creq'[p].status = 500
                    /\ creq'[p].attempts = creq[p].attempts
                    /\ creq'[p].shortcode = creq[p].shortcode
                    /\ store' = store
             /\ CreateDone(p) => creq'[p] = creq[p]]_vars

\* C26 witness: the store failed at the check of the seventh candidate of a
\* generated code; the request was answered 500 and has no record.
C26_Witness ==
    \E p \in AllocReqs :
        /\ CreateDone(p) /\ creq[p].fault /\ creq[p].status = 500
        /\ ~creq[p].custom
        /\ creq[p].attempts = 6
        /\ creq[p].expiryAt = 0
        /\ ~InStore(p)

\* The record as the creation request p builds it.
FreshRecord(p, d) ==
    /\ d.id = p
    /\ d.shortcode = creq[p].shortcode
    /\ d.originalUrl = creq[p].url
    /\ d.clickCount = 0
    /\ d.clicks = << >>

\* The step in which creation request p is answered with this status.
CreateAnswers(p, status) == creq[p].status = 0 /\ creq'[p].status = status

C28_NoClickAfterExpiry ==
    /\ [](\A d \in store :
             \A i \in 1..Len(d.clicks) : d.clicks[i].ts <= d.expiryAt)
    /\ [][\A r \in MainRedirectReqs :
             /\ (~rreq[r].written /\ rreq'[r].written) => now <= rreq[r].doc.expiryAt
             /\ (rreq[r].status # 302 /\ rreq'[r].status = 302)
                    => now <= rreq[r].doc.expiryAt]_vars

\* C29: the availability check ignores expiry: a code held by a record of
\* the store, expired or not, counts as taken: a creation with that custom
\* code is answered 409 and the generator goes on to another candidate; a
\* check lets a code through only when the store holds no record with it,
\* and a record leaves the store only by the sweep, at or after its expiryAt.
C29_ExpiredStillTaken ==
    [][/\ \A p \in CreateReqs :
             (creq[p].pc = "check" /\ creq'[p] # creq[p] /\ ~creq'[p].fault) =>
                 IF \E d \in store : d.shortcode = creq[p].shortcode
                 THEN /\ creq'[p].pc # "insert"
                      /\ IF creq[p].custom
                         THEN creq'[p].pc = "done" /\ creq'[p].status = 409
                         ELSE /\ creq'[p].attempts = creq[p].attempts + 1
                              /\ creq'[p].pc = "check" \/ creq'[p].status = 500
                 ELSE /\ creq'[p].shortcode = creq[p].shortcode
                      /\ creq'[p].pc = "insert" \/ creq'[p].status = 500
       /\ \A p \in CreateReqs :
             (creq[p].pc = "insert" /\ creq'[p].pc = "log") =>
                 \A d \in store : d.shortcode # creq[p].shortcode
       /\ \A d \in store :
             (\A e \in store' : e.id # d.id) =>
                 d.expiryAt <= now /\ creq' = creq]_vars

\* C29 witness: a creation with a custom code was answered 409 by the
\* availability check while the record of the earlier creation with that
\* code, past its expiryAt, was still in the store.
C29_Witness ==
    \E p, q \in CreateReqs :
        /\ p # q
        /\ creq[p].custom /\ creq[p].heldExpired /\ creq[p].status = 409 /\ ~creq[p].dup
        /\ creq[q].custom /\ creq[q].shortcode = creq[p].shortcode
        /\ creq[q].status = 201

\* C31: every code of the generation path is made of characters of the
\* 62-symbol alphabet and has length 6, 7 or 8, so it meets the record
\* constraint of 4 to 20 alphanumeric characters, and the schema validation
\* of the document built with it never rejects it.
C31_GeneratedCodeValid ==
    /\ Cardinality(base62Chars) = 62
    /\ [](\A p \in CreateReqs :
             (~creq[p].custom /\ creq[p].pc \in {"check", "insert", "log"}) =>
                 /\ \A i \in 1..Len(creq[p].shortcode) : creq[p].shortcode[i] \in base62Chars
                 /\ Len(creq[p].shortcode) \in {6, 7, 8}
                 /\ WellFormedCode(creq[p].shortcode)
                 /\ SchemaValid(NewUrlDoc(p, creq[p].shortcode, creq[p].url, 1, 0)))
    /\ [](\A d \in store :
             (d.id \in CreateReqs /\ ~creq[d.id].custom) =>
                 Len(d.shortcode) \in {6, 7, 8} /\ SchemaValid(d))
    /\ [][\A p \in CreateReqs :
             (Checking(p) /\ creq'[p] # creq[p] /\ ~creq'[p].fault
                  /\ ~shortcodeExists(store, creq[p].shortcode)
                  /\ creq[p].validity >= 1)
                 => creq'[p].pc = "insert" /\ creq'[p].shortcode = creq[p].shortcode]_vars

\* C31 witness: a creation was answered 201 with a generated code of length
\* 8, the codes drawn at lengths 6 and 7 being taken, and its record is in
\* the store.
C31_Witness ==
    \E p \in AllocReqs, d \in store :
        /\ d.id = p
        /\ creq[p].status = 201 /\ ~creq[p].custom
        /\ creq[p].attempts = 2 * maxRetries
        /\ Len(d.shortcode) = 8
        /\ d.shortcode = creq[p].shortcode

====
